---- MODULE Spec2Model ----
(***************************************************************************)
(* State-machine model of the estate-rag-assistant document pipeline:      *)
(*   - the LLM chains of EstateDocumentComparatorLLM / EstateDocumentAnalyzer *)
(*     (prompt | llm | OutputFixingParser(JsonOutputParser)),              *)
(*   - the session stores EstateDocHandler / EstateDocumentIngestion,      *)
(*   - PDF text extraction (the two read_pdf methods),                     *)
(*   - generate_session_id,                                                *)
(*   - ApiKeyManager._load_api_keys,                                       *)
(*   - ModelLoader.load_llm.                                               *)
(* Strings that the code inspects (file names, session ids) are sequences  *)
(* of one-character strings; byte contents are sequences of tokens.        *)
(***************************************************************************)
EXTENDS Integers, Sequences, FiniteSets, TLC

VARIABLES
    call,       \* record of the last compare_documents / analyze_document call
    ext,        \* record of the last read_pdf call on a document
    cred,       \* process environment and result of ApiKeyManager()
    ids,        \* generate_session_id: clock, uuids drawn, identifiers returned
    fs,         \* the file system below the working directory
    objs,       \* the EstateDocHandler / EstateDocumentIngestion objects constructed
    consumed,   \* uploaded file objects whose stream has been read to its end
    res,        \* record of the last call on a store object
    nSaves,     \* number of save calls made
    nInits,     \* number of store objects constructed
    llm         \* the ModelLoader and the result of its last load_llm call

vars == <<call, ext, cred, ids, fs, objs, consumed, res, nSaves, nInits, llm>>

pipelineVars == <<call, ext, cred, llm>>

storeVars == <<fs, objs, consumed, res, nSaves, nInits>>

(***************************************************************************)
(* Generic string helpers                                                  *)
(***************************************************************************)

\* str.join: parts joined with sep between consecutive parts
RECURSIVE Join(_, _)
Join(parts, sep) ==
    IF parts = <<>> THEN <<>>
    ELSE IF Len(parts) = 1 THEN parts[1]
    ELSE parts[1] \o sep \o Join(Tail(parts), sep)

\* the characters of the model in code-point order
Ascii ==
    <<"\t", "\n", " ", ".", "/",
      "0", "1", "2", "3", "4", "5", "6", "7", "8", "9",
      "A", "B", "C", "D", "E", "F", "G", "H", "I", "J", "K", "L", "M",
      "N", "O", "P", "Q", "R", "S", "T", "U", "V", "W", "X", "Y", "Z", "_",
      "a", "b", "c", "d", "e", "f", "g", "h", "i", "j", "k", "l", "m",
      "n", "o", "p", "q", "r", "s", "t", "u", "v", "w", "x", "y", "z">>

Chars == {Ascii[i] : i \in 1..Len(Ascii)}

OrdMap == [c \in Chars |-> CHOOSE i \in 1..Len(Ascii) : Ascii[i] = c]

\* ord(c), up to the offset of the first character of the model
Ord(c) == OrdMap[c]

IsUpper(c) == c \in {Ascii[i] : i \in OrdMap["A"]..OrdMap["Z"]}

\* str.lower()
Lower(s) ==
    [i \in 1..Len(s) |->
        IF IsUpper(s[i]) THEN Ascii[Ord(s[i]) - Ord("A") + Ord("a")] ELSE s[i]]

\* str.endswith
EndsWith(s, suffix) ==
    /\ Len(s) >= Len(suffix)
    /\ SubSeq(s, Len(s) - Len(suffix) + 1, Len(s)) = suffix

\* a < b on strings: code-point lexicographic order
StrLess(a, b) ==
    \E i \in 1..Len(b) :
        /\ \A j \in 1..(i - 1) : j <= Len(a) /\ a[j] = b[j]
        /\ (i > Len(a) \/ Ord(a[i]) < Ord(b[i]))

\* sorted() of a set of strings
RECURSIVE Sorted(_)
Sorted(S) ==
    IF S = {} THEN <<>>
    ELSE LET m == CHOOSE x \in S : \A y \in S \ {x} : StrLess(x, y)
         IN  <<m>> \o Sorted(S \ {m})

Max(S) == CHOOSE x \in S : \A y \in S : y <= x

\* positions of character c in s
Positions(s, c) == {i \in 1..Len(s) : s[i] = c}

\* pathlib's PurePath.suffix of a final component: from its last dot, unless
\* that dot leads or ends the name
Suffix(name) ==
    IF Positions(name, ".") = {} THEN <<>>
    ELSE LET i == Max(Positions(name, "."))
         IN  IF 1 < i /\ i < Len(name) THEN SubSeq(name, i, Len(name)) ELSE <<>>

\* os.path.basename: what follows the last separator
Basename(name) ==
    IF Positions(name, "/") = {} THEN name
    ELSE SubSeq(name, Max(Positions(name, "/")) + 1, Len(name))

\* the components of a relative path string, as pathlib keeps them: empty
\* components and "." are dropped, ".." is kept
RECURSIVE SplitPath(_)
SplitPath(s) ==
    IF s = <<>> THEN <<>>
    ELSE LET cut == IF Positions(s, "/") = {} THEN Len(s) + 1
                    ELSE CHOOSE i \in Positions(s, "/") : \A j \in Positions(s, "/") : i <= j
             first == SubSeq(s, 1, cut - 1)
             rest == SubSeq(s, cut + 1, Len(s))
         IN  (IF first = <<>> \/ first = <<".">> THEN <<>> ELSE <<first>>) \o SplitPath(rest)

(***************************************************************************)
(* File system: directories, files and their bytes, below the working      *)
(* directory (the path << >>).  A path is a sequence of components.        *)
(***************************************************************************)

Parent(path) == IF path = <<>> THEN <<>> ELSE SubSeq(path, 1, Len(path) - 1)

IsPrefix(p, q) == Len(p) <= Len(q) /\ SubSeq(q, 1, Len(p)) = p

IsDir(f, path) == path \in f.dirs

IsFile(f, path) == path \in DOMAIN f.files

\* the names directly inside a directory (Path.iterdir)
Children(f, dir) ==
    {p[Len(p)] : p \in {q \in f.dirs \cup DOMAIN f.files : Len(q) = Len(dir) + 1 /\ IsPrefix(dir, q)}}

DotDot == <<".", ".">>

\* path resolution of the operating system from directory cur: ".." needs the
\* directory it leaves to exist, an inner component must be a directory
RECURSIVE Walk(_, _, _)
Walk(f, cur, rest) ==
    IF rest = <<>> THEN [ok |-> IsDir(f, cur), path |-> cur]
    ELSE IF ~IsDir(f, cur) THEN [ok |-> FALSE, path |-> cur]
    ELSE IF Head(rest) = DotDot THEN Walk(f, Parent(cur), Tail(rest))
    ELSE IF Len(rest) = 1 THEN [ok |-> TRUE, path |-> Append(cur, Head(rest))]
    ELSE Walk(f, Append(cur, Head(rest)), Tail(rest))

\* open(path, "wb") and a write of data: the file is created or truncated
\* in an existing directory; the path may not name a directory
OpenWrite(f, parts, data) ==
    LET w == Walk(f, <<>>, parts)
    IN  IF w.ok /\ ~IsDir(f, w.path)
        THEN [ok |-> TRUE, path |-> w.path,
              fs |-> [f EXCEPT !.files =
                        [p \in DOMAIN f.files \cup {w.path} |->
                            IF p = w.path THEN data ELSE f.files[p]]]]
        ELSE [ok |-> FALSE, path |-> w.path, fs |-> f]

\* Path.mkdir(parents=True, exist_ok=True) / os.makedirs(exist_ok=True):
\* missing ancestors are created outermost first; a file in the way fails
RECURSIVE MkdirP(_, _, _)
MkdirP(f, path, n) ==
    IF n > Len(path) THEN [ok |-> TRUE, fs |-> f]
    ELSE LET d == SubSeq(path, 1, n)
         IN  IF IsFile(f, d) THEN [ok |-> FALSE, fs |-> f]
             ELSE IF IsDir(f, d) THEN MkdirP(f, path, n + 1)
             ELSE MkdirP([f EXCEPT !.dirs = @ \cup {d},
                                   !.ctime = [x \in f.dirs \cup {d} |->
                                                IF x = d THEN f.stamp ELSE f.ctime[x]],
                                   !.stamp = @ + 1],
                         path, n + 1)

\* shutil.rmtree(folder, ignore_errors=True)
RmTree(f, folder) ==
    LET keptDirs == {d \in f.dirs : ~IsPrefix(folder, d)}
    IN  [f EXCEPT !.dirs = keptDirs,
                  !.ctime = [d \in keptDirs |-> f.ctime[d]],
                  !.files = [p \in {q \in DOMAIN f.files : ~IsPrefix(folder, q)} |-> f.files[p]]]

EmptyFs == [dirs |-> {<<>>}, files |-> <<>>, ctime |-> [d \in {<<>>} |-> 0], stamp |-> 1]

(***************************************************************************)
(* LLM chains: prompt | llm | fixing_parser                                *)
(***************************************************************************)

\* Shapes of a model response text.
\*   schema_ok         JSON that matches the declared pydantic schema
\*   json_wrong_fields JSON of the right container type whose records miss
\*                     a required field or carry a wrongly typed one
\*   json_scalar       JSON that is neither a list of records nor an object
\*   malformed         not JSON (broken JSON syntax)
\*   prose             not JSON (another text: plain prose)
ResponseKinds == {"schema_ok", "json_wrong_fields", "json_scalar", "malformed", "prose"}

\* number of scripted outputs of the repair model available to a call
MaxRepairOutputs == 2

\* OutputFixingParser.from_llm(parser=..., llm=...) is called without
\* max_retries, which leaves the library default.
max_retries == 1

\* JsonOutputParser(pydantic_object=...).parse: the text is decoded as JSON;
\* pydantic_object only feeds get_format_instructions, the decoded value
\* is not validated against it.
JsonOutputParser_parse(text) == text \notin {"malformed", "prose"}

\* OutputFixingParser.parse: parse; on OutputParserException re-prompt the
\* llm (one invocation per retry) and parse its output, at most max_retries
\* times; the last exception is re-raised: it was built from the completion
\* parsed last (OutputParserException(msg, llm_output=text)).
RECURSIVE OutputFixingParser_parse(_, _, _)
OutputFixingParser_parse(completion, retries, repairs) ==
    IF JsonOutputParser_parse(completion)
    THEN [ok |-> TRUE, value |-> completion, retries |-> retries]
    ELSE IF retries = max_retries
    THEN [ok |-> FALSE, value |-> completion, retries |-> retries]
    ELSE OutputFixingParser_parse(repairs[retries + 1], retries + 1, repairs)

\* self.chain.invoke(inputs): the prompt is formatted, the llm is invoked
\* once, its text goes to the fixing parser.
ChainInvoke(raw, repairs) ==
    LET p == OutputFixingParser_parse(raw, 0, repairs)
    IN  [ok |-> p.ok, value |-> p.value, llmCalls |-> 1, repairCalls |-> p.retries]

NoCall ==
    [op |-> "none", corpus |-> <<>>, raw |-> "schema_ok", repairs |-> <<>>,
     llmCalls |-> 0, repairCalls |-> 0, status |-> "none",
     cause |-> "none", llm_output |-> "none", value |-> "none"]

\* EstateDocumentComparatorLLM.compare_documents followed by _format_response
CompareResult(combined_docs, raw, repairs) ==
    LET r == ChainInvoke(raw, repairs)
    IN  [op |-> "compare_documents", corpus |-> combined_docs, raw |-> raw,
         repairs |-> repairs, llmCalls |-> r.llmCalls, repairCalls |-> r.repairCalls,
         status |-> IF r.ok /\ r.value # "json_scalar" THEN "returned" ELSE "raised",
         cause |-> IF ~r.ok THEN "OutputParserException"
                   ELSE IF r.value = "json_scalar" THEN "ValueError" ELSE "none",
         llm_output |-> IF ~r.ok THEN r.value ELSE "none",
         value |-> IF r.ok /\ r.value # "json_scalar" THEN r.value ELSE "none"]

\* EstateDocumentAnalyzer.analyze_document
AnalyzeResult(document_text, raw, repairs) ==
    LET r == ChainInvoke(raw, repairs)
    IN  [op |-> "analyze_document", corpus |-> document_text, raw |-> raw,
         repairs |-> repairs, llmCalls |-> r.llmCalls, repairCalls |-> r.repairCalls,
         status |-> IF r.ok /\ r.value # "json_scalar" THEN "returned" ELSE "raised",
         cause |-> IF ~r.ok THEN "OutputParserException"
                   ELSE IF r.value = "json_scalar" THEN "AttributeError" ELSE "none",
         llm_output |-> IF ~r.ok THEN r.value ELSE "none",
         value |-> IF r.ok /\ r.value # "json_scalar" THEN r.value ELSE "none"]

\* texts handed to the chains: the empty corpus and a non-empty one
Corpora == {<<>>, <<"Document: ", "a", ".", "p", "d", "f", "\n", "x">>}

RepairScripts == [1..MaxRepairOutputs -> ResponseKinds]

compare_documents ==
    \E combined_docs \in Corpora, raw \in ResponseKinds, repairs \in RepairScripts :
        /\ call' = CompareResult(combined_docs, raw, repairs)
        /\ UNCHANGED <<ext, cred, llm, ids, storeVars>>

analyze_document ==
    \E document_text \in Corpora, raw \in ResponseKinds, repairs \in RepairScripts :
        /\ call' = AnalyzeResult(document_text, raw, repairs)
        /\ UNCHANGED <<ext, cred, llm, ids, storeVars>>

(***************************************************************************)
(* PDF documents and text extraction (fitz)                                *)
(***************************************************************************)

\* most pages of a document of the model
MaxPages == 2

\* page texts as page.get_text() returns them: sequences of characters
PageTexts == {<<>>, <<" ">>, <<"x">>, <<"\n", "y">>}

Whitespace == {" ", "\n", "\t"}

\* str.strip() of a page text
RECURSIVE Strip(_)
Strip(text) ==
    IF text = <<>> THEN <<>>
    ELSE IF Head(text) \in Whitespace THEN Strip(Tail(text))
    ELSE IF text[Len(text)] \in Whitespace THEN Strip(SubSeq(text, 1, Len(text) - 1))
    ELSE text

\* The bytes of a file, as far as fitz reads them: the header says whether
\* the file is a PDF at all ("" when it is not, as for an empty file) and
\* whether it needs a password; the pages follow.
PdfHeaders == {"%PDF", "%PDF-ENC", ""}

PageSeqs == UNION {[1..n -> PageTexts] : n \in 1..MaxPages}

\* a PDF has at least one page; a file that is no PDF has none
AllBytes == [hdr : PdfHeaders \ {""}, pages : PageSeqs] \cup {[hdr |-> "", pages |-> <<>>]}

EmptyBytes == [hdr |-> "", pages |-> <<>>]

Digits == <<"0", "1", "2", "3", "4", "5", "6", "7", "8", "9">>

\* f"{n}" of a non-negative integer
RECURSIVE Str(_)
Str(n) == IF n < 10 THEN <<Digits[n + 1]>> ELSE Str(n \div 10) \o <<Digits[(n % 10) + 1]>>

\* f"\n--- Page {page_num + 1} ---\n{text}"
PageChunk(page_num, text) ==
    <<"\n", "--- Page ">> \o Str(page_num + 1) \o <<" ---", "\n">> \o text

NoExt ==
    [op |-> "none", doc |-> EmptyBytes, status |-> "none", cause |-> "none",
     loadPageCalls |-> 0, text |-> <<>>]

\* EstateDocHandler.read_pdf: every page is loaded and gets a marker; there
\* is no is_encrypted test, so on a document that needs a password the first
\* load_page is attempted and its outcome is the library's (encLoad): it
\* raises, or hands back a page.
HandlerChunks(pages) == [k \in 1..Len(pages) |-> PageChunk(k - 1, pages[k])]

HandlerReadPdf(bytes, encLoad) ==
    IF bytes.hdr = ""
    THEN [op |-> "EstateDocHandler.read_pdf", doc |-> bytes, status |-> "raised",
          cause |-> "cannot open document", loadPageCalls |-> 0, text |-> <<>>]
    ELSE IF bytes.hdr = "%PDF-ENC" /\ Len(bytes.pages) > 0 /\ encLoad = "raises"
    THEN [op |-> "EstateDocHandler.read_pdf", doc |-> bytes, status |-> "raised",
          cause |-> "document closed or encrypted", loadPageCalls |-> 1, text |-> <<>>]
    ELSE [op |-> "EstateDocHandler.read_pdf", doc |-> bytes, status |-> "returned",
          cause |-> "none", loadPageCalls |-> Len(bytes.pages),
          text |-> Join(HandlerChunks(bytes.pages), <<"\n">>)]

\* EstateDocumentIngestion.read_pdf: is_encrypted is tested first; a page gets
\* a marker only when text.strip() is non-empty.
RECURSIVE IngestionParts(_, _)
IngestionParts(pages, page_num) ==
    IF page_num >= Len(pages) THEN <<>>
    ELSE (IF Strip(pages[page_num + 1]) # <<>>
          THEN <<PageChunk(page_num, pages[page_num + 1])>> ELSE <<>>)
         \o IngestionParts(pages, page_num + 1)

IngestionReadPdf(bytes) ==
    IF bytes.hdr = ""
    THEN [op |-> "EstateDocumentIngestion.read_pdf", doc |-> bytes, status |-> "raised",
          cause |-> "cannot open document", loadPageCalls |-> 0, text |-> <<>>]
    ELSE IF bytes.hdr = "%PDF-ENC"
    THEN [op |-> "EstateDocumentIngestion.read_pdf", doc |-> bytes, status |-> "raised",
          cause |-> "PDF is encrypted", loadPageCalls |-> 0, text |-> <<>>]
    ELSE [op |-> "EstateDocumentIngestion.read_pdf", doc |-> bytes, status |-> "returned",
          cause |-> "none", loadPageCalls |-> Len(bytes.pages),
          text |-> Join(IngestionParts(bytes.pages, 0), <<"\n">>)]

handler_read_pdf ==
    \E bytes \in AllBytes, encLoad \in {"raises", "loads"} :
        /\ ext' = HandlerReadPdf(bytes, encLoad)
        /\ UNCHANGED <<call, cred, llm, ids, storeVars>>

ingestion_read_pdf ==
    \E bytes \in AllBytes :
        /\ ext' = IngestionReadPdf(bytes)
        /\ UNCHANGED <<call, cred, llm, ids, storeVars>>

(***************************************************************************)
(* ApiKeyManager                                                           *)
(***************************************************************************)

REQUIRED_KEYS == <<"GROQ_API_KEY", "GOOGLE_API_KEY">>

RequiredKeySet == {REQUIRED_KEYS[i] : i \in 1..Len(REQUIRED_KEYS)}

\* values a key of the API_KEYS JSON object can carry
JsonValues == {[type |-> "string", s |-> "gsk_abcdef"], [type |-> "string", s |-> ""],
               [type |-> "null", s |-> ""]}

JsonObjects == UNION {[ks -> JsonValues] : ks \in SUBSET RequiredKeySet}

\* os.getenv("API_KEYS"): unset, the empty string, text that is not JSON,
\* JSON that is not an object, or a JSON object
ApiKeysSettings ==
    {[kind |-> k, obj |-> <<>>] : k \in {"unset", "empty", "not_json", "json_list"}}
    \cup {[kind |-> "json_object", obj |-> o] : o \in JsonObjects}

\* os.getenv(key) of an individual variable: None, "" or a key
EnvValues == {"unset", "", "key-from-env"}

Environments == [API_KEYS : ApiKeysSettings, vars : [RequiredKeySet -> EnvValues]]

NoCred ==
    [env |-> [API_KEYS |-> [kind |-> "unset", obj |-> <<>>],
              vars |-> [k \in RequiredKeySet |-> "unset"]],
     status |-> "none", error |-> "none", missing_keys |-> <<>>, api_keys |-> <<>>]

\* json.loads + isinstance(parsed, dict) + self.api_keys.update(parsed); a
\* failure is logged and swallowed
KeysFromSecret(env) ==
    IF env.API_KEYS.kind = "json_object" THEN env.API_KEYS.obj ELSE <<>>

\* for key in REQUIRED_KEYS: if key not in self.api_keys: env_val = getenv(key);
\* if env_val: self.api_keys[key] = env_val
KeysWithEnv(env) ==
    LET fromSecret == KeysFromSecret(env)
        added == {k \in RequiredKeySet :
                    k \notin DOMAIN fromSecret /\ env.vars[k] \notin {"unset", ""}}
    IN  [k \in (DOMAIN fromSecret) \cup added |->
            IF k \in DOMAIN fromSecret THEN fromSecret[k]
            ELSE [type |-> "string", s |-> env.vars[k]]]

\* missing_keys = [k for k in REQUIRED_KEYS if k not in self.api_keys]
MissingKeys(api_keys) ==
    SelectSeq(REQUIRED_KEYS, LAMBDA k : k \notin DOMAIN api_keys)

\* masked_keys = {k: v[:6] + "..." ...}: slicing a value that is not a
\* string raises TypeError
MaskingRaises(api_keys) == \E k \in DOMAIN api_keys : api_keys[k].type # "string"

\* ApiKeyManager.__init__ / _load_api_keys
LoadApiKeys(env) ==
    LET api_keys == KeysWithEnv(env)
        missing_keys == MissingKeys(api_keys)
    IN  IF missing_keys # <<>>
        THEN [env |-> env, status |-> "raised", error |-> "Missing API keys",
              missing_keys |-> missing_keys, api_keys |-> api_keys]
        ELSE IF MaskingRaises(api_keys)
        THEN [env |-> env, status |-> "raised", error |-> "TypeError",
              missing_keys |-> <<>>, api_keys |-> api_keys]
        ELSE [env |-> env, status |-> "constructed", error |-> "none",
              missing_keys |-> <<>>, api_keys |-> api_keys]

ApiKeyManager_init ==
    \E env \in Environments :
        /\ cred' = LoadApiKeys(env)
        /\ UNCHANGED <<call, ext, llm, ids, storeVars>>

(***************************************************************************)
(* ModelLoader                                                             *)
(***************************************************************************)

\* provider values a configuration entry can carry; "" stands for an entry
\* without a provider field (llm_config.get("provider") is None)
ProviderValues == {"google", "groq", "azure", ""}

\* keys of the llm block of the configuration file
ConfigKeys == {"google", "legacy"}

\* an entry of the llm block: a mapping with its provider value, or null
LlmEntries ==
    {[kind |-> "mapping", provider |-> p] : p \in ProviderValues}
    \cup {[kind |-> "null", provider |-> ""]}

LlmBlocks == UNION {[ks -> LlmEntries] : ks \in SUBSET ConfigKeys}

\* load_config(): the parsed YAML mapping, with or without an llm block
\* (an empty file gives {})
Configs ==
    {[hasLlm |-> FALSE, llm |-> <<>>]}
    \cup {[hasLlm |-> TRUE, llm |-> b] : b \in LlmBlocks}

\* os.getenv("LLM_PROVIDER", "google"): "unset" stands for no variable
ProviderSettings == {"unset", "google", "legacy", "unknown-provider"}

NoLlm ==
    [loader |-> "none", config |-> [hasLlm |-> FALSE, llm |-> <<>>],
     provider_key |-> "", status |-> "none", error |-> "none", cause |-> "none",
     client |-> "none", clients |-> 0, networkCalls |-> 0]

\* the outcome of load_llm that ends in the except clause: the cause is
\* logged and its traceback kept; the error raised is always the same
LlmFailed(cause, clients) ==
    [status |-> "raised", error |-> "LLM initialization failed", cause |-> cause,
     client |-> "none", clients |-> clients, networkCalls |-> 0]

\* the outcome of load_llm that returns a chat client; constructing a client
\* stores the model name and the key and sends nothing
LlmLoaded(client) ==
    [status |-> "returned", error |-> "none", cause |-> "none",
     client |-> client, clients |-> 1, networkCalls |-> 0]

\* a variant of load_llm that builds the client before looking at the provider
LoadLlmClientFirst(config, setting) ==
    LET provider_key == IF setting = "unset" THEN "google" ELSE setting
    IN  IF ~config.hasLlm THEN LlmFailed("KeyError", 0)
        ELSE IF provider_key \notin DOMAIN config.llm
        THEN LlmFailed("LLM provider not found in configuration", 1)
        ELSE IF config.llm[provider_key].kind = "null"
        THEN LlmFailed("AttributeError", 0)
        ELSE LET provider == config.llm[provider_key].provider
             IN  IF provider = "google" THEN LlmLoaded("ChatGoogleGenerativeAI")
                 ELSE IF provider = "groq" THEN LlmLoaded("ChatGroq")
                 ELSE LlmFailed("Unsupported LLM provider", 1)

\* ModelLoader.load_llm; api_key_mgr.get cannot fail, because the manager was
\* constructed only with both required keys
LoadLlm(config, setting) ==
    LET provider_key == IF setting = "unset" THEN "google" ELSE setting
    IN  IF ~config.hasLlm THEN LlmFailed("KeyError", 0)
        ELSE IF provider_key \notin DOMAIN config.llm
        THEN LlmFailed("LLM provider not found in configuration", 0)
        ELSE IF config.llm[provider_key].kind = "null"
        THEN LlmFailed("AttributeError", 0)
        ELSE LET provider == config.llm[provider_key].provider
             IN  IF provider = "google" THEN LlmLoaded("ChatGoogleGenerativeAI")
                 ELSE IF provider = "groq" THEN LlmLoaded("ChatGroq")
                 ELSE LlmFailed("Unsupported LLM provider", 0)

\* ModelLoader.__init__, run once per process: ApiKeyManager() then
\* load_config(); a failure of the first leaves no loader
ModelLoader_init ==
    \E env \in Environments, config \in Configs :
        /\ cred.status = "none"
        /\ cred' = LoadApiKeys(env)
        /\ llm' = [NoLlm EXCEPT
                     !.loader = IF cred'.status = "constructed"
                                THEN "constructed" ELSE "none",
                     !.config = IF cred'.status = "constructed"
                                THEN config ELSE NoLlm.config]
        /\ UNCHANGED <<call, ext, ids, storeVars>>

\* ModelLoader.load_llm on a constructed loader
load_llm ==
    \E setting \in ProviderSettings :
        /\ llm.loader = "constructed"
        /\ llm' = [loader |-> llm.loader, config |-> llm.config,
                   provider_key |-> IF setting = "unset" THEN "google" ELSE setting]
                  @@ LoadLlm(llm.config, setting)
        /\ UNCHANGED <<call, ext, cred, ids, storeVars>>

(***************************************************************************)
(* generate_session_id                                                     *)
(***************************************************************************)

\* number of leading hex digits of the uuid kept in the identifier
HexKeep == 8

\* most calls of generate_session_id in a behaviour
MaxIdCalls == 3

\* the clock runs from second 0 to MaxClock
MaxClock == 1

\* uuid.uuid4().hex values a call may draw (the first ten of the 32 digits
\* are kept here); no value is drawn twice
UuidPool ==
    {<<"a", "3", "f", "0", "9", "c", "1", "e", "0", "0">>,
     <<"a", "3", "f", "0", "9", "c", "1", "e", "7", "b">>,
     <<"5", "d", "2", "e", "8", "8", "4", "1", "c", "9">>}

estate_session == <<"e", "s", "t", "a", "t", "e", "_", "s", "e", "s", "s", "i", "o", "n">>

estate_compare == <<"e", "s", "t", "a", "t", "e", "_", "c", "o", "m", "p", "a", "r", "e">>

Prefixes == {estate_session, estate_compare}

\* datetime.now(timezone.utc).strftime('%Y%m%d_%H%M%S'), the clock counting
\* the seconds after 2025-01-01 00:00:00 (fewer than 60)
StrfTime(t) ==
    <<"2", "0", "2", "5", "0", "1", "0", "1", "_", "0", "0", "0", "0">>
    \o (IF t < 10 THEN <<"0">> ELSE <<>>) \o Str(t)

\* f"{prefix}_{timestamp}_{unique_id}" with unique_id = uuid4().hex[:8]
SessionIdOf(prefix, t, uuid) ==
    prefix \o <<"_">> \o StrfTime(t) \o <<"_">> \o SubSeq(uuid, 1, HexKeep)

NoIds == [clock |-> 0, drawn |-> {}, calls |-> <<>>]

\* the record of ids after a call of generate_session_id(prefix) that drew uuid
Generated(prefix, uuid) ==
    [ids EXCEPT
        !.drawn = @ \cup {uuid},
        !.calls = Append(@, [prefix |-> prefix, second |-> ids.clock,
                             session_id |-> SessionIdOf(prefix, ids.clock, uuid)])]

\* one call of generate_session_id(prefix)
generate_session_id ==
    \E prefix \in Prefixes, uuid \in UuidPool \ ids.drawn :
        /\ Len(ids.calls) < MaxIdCalls
        /\ ids' = Generated(prefix, uuid)
        /\ UNCHANGED <<call, ext, cred, llm, storeVars>>

\* a second passes
Tick ==
    /\ ids.clock < MaxClock
    /\ ids' = [ids EXCEPT !.clock = @ + 1]
    /\ UNCHANGED <<call, ext, cred, llm, storeVars>>

(***************************************************************************)
(* Session stores: EstateDocHandler and EstateDocumentIngestion            *)
(***************************************************************************)

\* most constructor calls of store objects in a behaviour
MaxSessions == 2

\* most save calls (save_pdf, save_uploaded_files) in a behaviour
MaxSaves == 1

\* keep_latest ranges over 0..MaxKeep and the default
MaxKeep == 1

\* def clean_old_sessions(self, keep_latest: int = 3)
KeepLatestDefault == 3

data == <<"d", "a", "t", "a">>

document_compare ==
    <<"d", "o", "c", "u", "m", "e", "n", "t", "_", "c", "o", "m", "p", "a", "r", "e">>

document_analysis ==
    <<"d", "o", "c", "u", "m", "e", "n", "t", "_", "a", "n", "a", "l", "y", "s", "i", "s">>

\* base_dir: str = "data/document_compare"
DefaultBaseDir == <<data, document_compare>>

\* os.path.join(os.getcwd(), "data", "document_analysis")
DefaultDataDir == <<data, document_analysis>>

\* session ids callers pass explicitly
zId == <<"z">>

vPdfId == <<"v", ".", "p", "d", "f">>

test_estate_analysis ==
    <<"t", "e", "s", "t", "_", "e", "s", "t", "a", "t", "e", "_",
      "a", "n", "a", "l", "y", "s", "i", "s">>

\* (base_dir, session_id) arguments of EstateDocumentIngestion(...); generated
\* stands for session_id=None.  The second base directory is the session
\* directory of session z, so that a session directory can hold a directory.
IngestionArgs ==
    {[base |-> DefaultBaseDir, sid |-> zId, generated |-> FALSE],
     [base |-> DefaultBaseDir, sid |-> <<>>, generated |-> TRUE],
     [base |-> Append(DefaultBaseDir, zId), sid |-> vPdfId, generated |-> FALSE]}

dotPdf == <<".", "p", "d", "f">>

\* SUPPORTED_EXTENSIONS = {".pdf", ".docx", ".txt"}
SUPPORTED_EXTENSIONS ==
    {dotPdf, <<".", "d", "o", "c", "x">>, <<".", "t", "x", "t">>}

Doc1 == [hdr |-> "%PDF", pages |-> <<<<"x">>>>]

Doc2 == [hdr |-> "%PDF", pages |-> <<<<" ">>, <<"\n", "y">>>>]

DocEnc == [hdr |-> "%PDF-ENC", pages |-> <<<<"x">>>>]

\* uploaded file objects: a name, the bytes behind it, and whether the object
\* has a read method (a stream with a position) or only getbuffer
UploadPool ==
    {[name |-> <<"a", ".", "p", "d", "f">>, bytes |-> Doc1, api |-> "getbuffer"],
     [name |-> <<"a", ".", "p", "d", "f">>, bytes |-> Doc2, api |-> "getbuffer"],
     [name |-> <<"B", ".", "P", "D", "F">>, bytes |-> Doc2, api |-> "read"],
     [name |-> <<"e", ".", "p", "d", "f">>, bytes |-> DocEnc, api |-> "getbuffer"],
     [name |-> <<".", "p", "d", "f">>, bytes |-> Doc1, api |-> "getbuffer"],
     [name |-> <<"n", ".", "t", "x", "t">>, bytes |-> Doc1, api |-> "getbuffer"],
     [name |-> <<".", ".", "/", "z", "/", "t", ".", "p", "d", "f">>, bytes |-> Doc1,
      api |-> "getbuffer"]}

SessionPath(o) == Append(o.base, o.sid)

\* fobj.read() if hasattr(fobj, "read") else fobj.getbuffer(): read() hands
\* out what follows the stream position and leaves the position at the end
UploadData(u, used) ==
    IF u.api = "read" /\ u \in used THEN EmptyBytes ELSE u.bytes

UploadUsed(u, used) == IF u.api = "read" THEN used \cup {u} ELSE used

\* one round of the loop of save_uploaded_files on state st =
\* [ok, cause, fs, used, paths]: the extension test, open(out_path, "wb"),
\* the write
SaveOne(st, session_path, fobj) ==
    IF ~st.ok THEN st
    ELSE IF ~EndsWith(Lower(fobj.name), dotPdf)
    THEN [st EXCEPT !.ok = FALSE, !.cause = "Only PDF files are allowed."]
    ELSE LET w == OpenWrite(st.fs, session_path \o SplitPath(fobj.name),
                            UploadData(fobj, st.used))
         IN  IF ~w.ok THEN [st EXCEPT !.ok = FALSE, !.cause = "OSError"]
             ELSE [st EXCEPT !.fs = w.fs, !.used = UploadUsed(fobj, st.used),
                             !.paths = Append(@, w.path)]

\* EstateDocumentIngestion.save_uploaded_files(reference_file, actual_file)
SaveUploadedFiles(f, used, session_path, reference_file, actual_file) ==
    SaveOne(SaveOne([ok |-> TRUE, cause |-> "none", fs |-> f, used |-> used, paths |-> <<>>],
                    session_path, reference_file),
            session_path, actual_file)

\* EstateDocHandler.save_pdf(uploaded_file)
SavePdf(f, used, session_path, uploaded_file) ==
    LET filename == Basename(uploaded_file.name)
    IN  IF ~EndsWith(Lower(filename), dotPdf)
        THEN [ok |-> FALSE, cause |-> "Invalid file type. Only PDFs are allowed.",
              fs |-> f, used |-> used, paths |-> <<>>]
        ELSE LET w == OpenWrite(f, Append(session_path, filename),
                                UploadData(uploaded_file, used))
             IN  IF ~w.ok
                 THEN [ok |-> FALSE, cause |-> "OSError", fs |-> f, used |-> used,
                       paths |-> <<>>]
                 ELSE [ok |-> TRUE, cause |-> "none", fs |-> w.fs,
                       used |-> UploadUsed(uploaded_file, used), paths |-> <<w.path>>]

\* f"Document: {file.name}\n{content}"
DocPart(name, content) == <<"Document: ">> \o name \o <<"\n">> \o content

\* CombineNames with the suffix compared without lower()
CombineNamesCaseSensitive(f, session_path) ==
    SelectSeq(Sorted(Children(f, session_path)),
              LAMBDA n : /\ IsFile(f, Append(session_path, n))
                         /\ Suffix(n) = dotPdf)

\* the files combine_documents reads: sorted(iterdir()) filtered by
\* file.is_file() and file.suffix.lower() == ".pdf"
CombineNames(f, session_path) ==
    SelectSeq(Sorted(Children(f, session_path)),
              LAMBDA n : /\ IsFile(f, Append(session_path, n))
                         /\ Lower(Suffix(n)) = dotPdf)

\* EstateDocumentIngestion.combine_documents: any failing read_pdf, or a
\* missing session directory, fails the call
CombineDocuments(f, session_path) ==
    IF ~IsDir(f, session_path)
    THEN [ok |-> FALSE, cause |-> "FileNotFoundError", text |-> <<>>]
    ELSE LET names == CombineNames(f, session_path)
             reads == [i \in 1..Len(names) |->
                         IngestionReadPdf(f.files[Append(session_path, names[i])])]
         IN  IF \E i \in 1..Len(names) : reads[i].status = "raised"
             THEN [ok |-> FALSE, cause |-> "Error reading estate PDF", text |-> <<>>]
             ELSE [ok |-> TRUE, cause |-> "none",
                   text |-> Join([i \in 1..Len(names) |-> DocPart(names[i], reads[i].text)],
                                 <<"\n", "\n">>)]

\* sorted([f for f in self.base_dir.iterdir() if f.is_dir()], reverse=True)
Reverse(q) == [i \in 1..Len(q) |-> q[Len(q) + 1 - i]]

SessionsOf(f, base_dir) ==
    Reverse(Sorted({n \in Children(f, base_dir) : IsDir(f, Append(base_dir, n))}))

\* for folder in sessions[keep_latest:]: shutil.rmtree(folder, ignore_errors=True)
RECURSIVE RmAll(_, _, _)
RmAll(f, base_dir, folders) ==
    IF folders = <<>> THEN f
    ELSE RmAll(RmTree(f, Append(base_dir, Head(folders))), base_dir, Tail(folders))

\* EstateDocumentIngestion.clean_old_sessions(keep_latest)
CleanOldSessions(f, base_dir, keep_latest) ==
    IF ~IsDir(f, base_dir) THEN [ok |-> FALSE, fs |-> f]
    ELSE LET sessions == SessionsOf(f, base_dir)
         IN  [ok |-> TRUE,
              fs |-> RmAll(f, base_dir, SubSeq(sessions, keep_latest + 1, Len(sessions)))]

\* EstateDocumentIngestion.__init__: the session id is the argument or a
\* generated one; the session directory is made with its parents
IngestionInit(args) ==
    \E a \in args, uuid \in UuidPool :
        /\ a.generated => (uuid \notin ids.drawn /\ Len(ids.calls) < MaxIdCalls)
        /\ ~a.generated => uuid = CHOOSE u \in UuidPool : TRUE
        /\ LET sid == IF a.generated THEN SessionIdOf(estate_compare, ids.clock, uuid)
                      ELSE a.sid
               o == [cls |-> "ingestion", base |-> a.base, sid |-> sid]
               mk == MkdirP(fs, SessionPath(o), 1)
           IN  /\ nInits < MaxSessions
               /\ nInits' = nInits + 1
               /\ ids' = IF a.generated THEN Generated(estate_compare, uuid) ELSE ids
               /\ fs' = mk.fs
               /\ objs' = IF mk.ok THEN objs \cup {o} ELSE objs
               /\ res' = [op |-> "__init__", caller |-> SessionPath(o),
                          status |-> IF mk.ok THEN "returned" ELSE "raised"]
        /\ UNCHANGED <<pipelineVars, consumed, nSaves>>

\* EstateDocHandler.__init__ with an explicit session id
Handler_init ==
    LET o == [cls |-> "handler", base |-> DefaultDataDir, sid |-> test_estate_analysis]
        mk == MkdirP(fs, SessionPath(o), 1)
    IN  /\ nInits < MaxSessions
        /\ nInits' = nInits + 1
        /\ fs' = mk.fs
        /\ objs' = IF mk.ok THEN objs \cup {o} ELSE objs
        /\ res' = [op |-> "__init__", caller |-> SessionPath(o),
                   status |-> IF mk.ok THEN "returned" ELSE "raised"]
        /\ UNCHANGED <<pipelineVars, ids, consumed, nSaves>>

SaveUploaded(pool) ==
    \E o \in objs, reference_file \in pool, actual_file \in pool :
        /\ o.cls = "ingestion"
        /\ nSaves < MaxSaves
        /\ LET r == SaveUploadedFiles(fs, consumed, SessionPath(o), reference_file,
                                      actual_file)
           IN  /\ fs' = r.fs
               /\ consumed' = r.used
               /\ res' = [op |-> "save_uploaded_files", caller |-> SessionPath(o),
                          status |-> IF r.ok THEN "returned" ELSE "raised",
                          cause |-> r.cause, uploads |-> <<reference_file, actual_file>>,
                          paths |-> r.paths]
        /\ nSaves' = nSaves + 1
        /\ UNCHANGED <<pipelineVars, ids, objs, nInits>>

Ingestion_init == IngestionInit(IngestionArgs)

save_uploaded_files == SaveUploaded(UploadPool)

\* the constructor arguments and uploads of the behaviours that study
\* combine_documents: explicit session ids, and no name with a separator
CombineArgs == {a \in IngestionArgs : ~a.generated}

CombinePool ==
    {u \in UploadPool : Positions(u.name, "/") = {} /\ (u.bytes # Doc2 \/ u.api = "read")}

Ingestion_init_explicit == IngestionInit(CombineArgs)

save_uploaded_files_plain == SaveUploaded(CombinePool)

save_pdf ==
    \E o \in objs, uploaded_file \in UploadPool :
        /\ o.cls = "handler"
        /\ nSaves < MaxSaves
        /\ LET r == SavePdf(fs, consumed, SessionPath(o), uploaded_file)
           IN  /\ fs' = r.fs
               /\ consumed' = r.used
               /\ res' = [op |-> "save_pdf", caller |-> SessionPath(o),
                          status |-> IF r.ok THEN "returned" ELSE "raised",
                          cause |-> r.cause, uploads |-> <<uploaded_file>>,
                          paths |-> r.paths]
        /\ nSaves' = nSaves + 1
        /\ UNCHANGED <<pipelineVars, ids, objs, nInits>>

combine_documents ==
    \E o \in objs :
        /\ o.cls = "ingestion"
        /\ LET r == CombineDocuments(fs, SessionPath(o))
           IN  res' = [op |-> "combine_documents", caller |-> SessionPath(o),
                       status |-> IF r.ok THEN "returned" ELSE "raised",
                       cause |-> r.cause, text |-> r.text]
        /\ UNCHANGED <<pipelineVars, ids, fs, objs, consumed, nSaves, nInits>>

clean_old_sessions ==
    \E o \in objs, keep_latest \in (0..MaxKeep) \cup {KeepLatestDefault} :
        /\ o.cls = "ingestion"
        /\ LET r == CleanOldSessions(fs, o.base, keep_latest)
           IN  /\ fs' = r.fs
               /\ res' = [op |-> "clean_old_sessions", caller |-> SessionPath(o),
                          status |-> IF r.ok THEN "returned" ELSE "raised",
                          base |-> o.base, keep_latest |-> keep_latest]
        /\ UNCHANGED <<pipelineVars, ids, objs, consumed, nSaves, nInits>>

NoRes == [op |-> "none"]

InitRest ==
    /\ ext = NoExt /\ cred = NoCred /\ llm = NoLlm /\ ids = NoIds
    /\ fs = EmptyFs /\ objs = {} /\ consumed = {} /\ res = NoRes /\ nSaves = 0 /\ nInits = 0

Init == call = NoCall /\ InitRest

Next ==
    \/ Ingestion_init
    \/ Handler_init
    \/ save_uploaded_files
    \/ save_pdf
    \/ combine_documents
    \/ clean_old_sessions
    \/ Tick

Spec == Init /\ [][Next]_vars

NextCombine ==
    \/ Ingestion_init_explicit
    \/ save_uploaded_files_plain
    \/ combine_documents
    \/ clean_old_sessions

SpecCombine == Init /\ [][NextCombine]_vars

InitParser == call = NoCall /\ InitRest

NextParser == compare_documents \/ analyze_document

SpecParser == InitParser /\ [][NextParser]_vars

InitExtract == call = NoCall /\ InitRest

NextExtract == handler_read_pdf \/ ingestion_read_pdf

SpecExtract == InitExtract /\ [][NextExtract]_vars

InitCreds == call = NoCall /\ InitRest

NextCreds == ApiKeyManager_init

SpecCreds == InitCreds /\ [][NextCreds]_vars

InitIds == call = NoCall /\ InitRest

NextIds == generate_session_id \/ Tick

SpecIds == InitIds /\ [][NextIds]_vars

InitLoader == call = NoCall /\ InitRest

NextLoader == ModelLoader_init \/ load_llm

SpecLoader == InitLoader /\ [][NextLoader]_vars

(***************************************************************************)
(* Properties                                                              *)
(***************************************************************************)

\* C1 (as stated): a call of either chain invokes the repair model zero
\* times when the raw response conforms to the schema and exactly once when
\* it does not.
C1_RepairOnceIffSchemaMismatch ==
    call.op # "none" =>
        call.repairCalls = (IF call.raw = "schema_ok" THEN 0 ELSE 1)

\* C2 (as stated): compare_documents on the empty corpus fails with the
\* empty-corpus error and never invokes the model.
C2_EmptyCorpusFailsFast ==
    (call.op = "compare_documents" /\ call.corpus = <<>>) =>
        /\ call.status = "raised"
        /\ call.cause = "EmptyCorpusError"
        /\ call.llmCalls = 0

\* C8 (as stated): both read_pdf operations fail on a document that reports
\* encryption with the encrypted-document error, load no page and return no
\* text.
C8_EncryptedFailsBeforeAnyPage ==
    (ext.op # "none" /\ ext.doc.hdr = "%PDF-ENC") =>
        /\ ext.status = "raised"
        /\ ext.cause = "PDF is encrypted"
        /\ ext.loadPageCalls = 0
        /\ ext.text = <<>>

\* a required key is present when the API_KEYS object has it or its own
\* environment variable holds a non-empty value
KeyPresent(env, k) ==
    \/ env.API_KEYS.kind = "json_object" /\ k \in DOMAIN env.API_KEYS.obj
    \/ env.vars[k] \notin {"unset", ""}

\* C10 (as stated): construction fails with the missing-credential error,
\* naming every missing key, exactly when some required key is present in
\* neither source, and succeeds when every required key is present in one.
C10_MissingCredentialIffAbsent ==
    cred.status # "none" =>
        LET absent == {k \in RequiredKeySet : ~KeyPresent(cred.env, k)}
        IN  /\ (absent # {}) =>
                  /\ cred.status = "raised" /\ cred.error = "Missing API keys"
                  /\ {cred.missing_keys[i] : i \in 1..Len(cred.missing_keys)} = absent
            /\ (absent = {}) => cred.status = "constructed"

\* C7 (as stated): any two calls of generate_session_id of one process return
\* different identifiers.
C7_SessionIdsUnique ==
    \A i, j \in 1..Len(ids.calls) :
        i # j => ids.calls[i].session_id # ids.calls[j].session_id

\* the causes that stand for the invalid-file-type error
InvalidFileTypeCauses ==
    {"Only PDF files are allowed.", "Invalid file type. Only PDFs are allowed."}

IsSave == res.op \in {"save_pdf", "save_uploaded_files"}

\* C3 (as stated): a save fails with the invalid-file-type error when one of
\* its file names, lower-cased, ends in no allowed extension, and is accepted
\* when every name does.
C3_ExtensionDecidesSave ==
    IsSave =>
        LET bad == \E i \in 1..Len(res.uploads) :
                      ~\E e \in SUPPORTED_EXTENSIONS : EndsWith(Lower(res.uploads[i].name), e)
        IN  /\ bad => (res.status = "raised" /\ res.cause \in InvalidFileTypeCauses)
            /\ ~bad => res.status = "returned"

\* C4 (as stated): a save whose file names all end in .pdf (in any case)
\* succeeds, and the file at each returned path holds the bytes of the upload
\* it was returned for.
C4_SaveRoundTrip ==
    (IsSave /\ \A i \in 1..Len(res.uploads) : EndsWith(Lower(res.uploads[i].name), dotPdf)) =>
        /\ res.status = "returned"
        /\ Len(res.paths) = Len(res.uploads)
        /\ \A i \in 1..Len(res.uploads) :
              /\ IsFile(fs, res.paths[i])
              /\ fs.files[res.paths[i]] = res.uploads[i].bytes

\* the session directories of a base directory
SessionDirs(f, base_dir) == {d \in f.dirs : Len(d) = Len(base_dir) + 1 /\ IsPrefix(base_dir, d)}

\* the n most recently created directories of S
MostRecent(f, S, n) == {d \in S : Cardinality({e \in S : f.ctime[e] > f.ctime[d]}) < n}

\* a step of the named operation of a store object
IsStepOf(op) == res'.op = op /\ ids' = ids /\ nInits' = nInits /\ nSaves' = nSaves

\* C5 (as stated): clean_old_sessions(keep_latest=N) leaves exactly the N most
\* recently created session directories of the base directory.
C5_KeepsMostRecentlyCreated ==
    [][(IsStepOf("clean_old_sessions") /\ res'.status = "returned") =>
          SessionDirs(fs', res'.base)
              = MostRecent(fs, SessionDirs(fs, res'.base), res'.keep_latest)]_vars

\* what a session directory holds: whether it exists, and its files
DirState(f, dir) ==
    [exists |-> IsDir(f, dir),
     files |-> [p \in {q \in DOMAIN f.files : IsPrefix(dir, q)} |-> f.files[p]]]

\* C6 (as stated): a save_uploaded_files, combine_documents or
\* clean_old_sessions call of one session leaves the directory of every other
\* session (neither directory inside the other), and the result of its
\* combine_documents, as they were.
C6_OtherSessionsUntouched ==
    [][\A b \in objs :
          (/\ res'.op \in {"save_uploaded_files", "combine_documents", "clean_old_sessions"}
           /\ b.cls = "ingestion"
           /\ ~IsPrefix(SessionPath(b), res'.caller)
           /\ ~IsPrefix(res'.caller, SessionPath(b))
           /\ nInits' = nInits)
          => /\ DirState(fs', SessionPath(b)) = DirState(fs, SessionPath(b))
             /\ CombineDocuments(fs', SessionPath(b)) = CombineDocuments(fs, SessionPath(b))]_vars

\* the spellings of the extension .pdf in any case
PdfSpellings ==
    {<<".", p, d, f>> : p \in {"p", "P"}, d \in {"d", "D"}, f \in {"f", "F"}}

\* a name has the extension .pdf: a non-empty stem followed by a spelling
HasPdfExtension(n) ==
    Len(n) > 4 /\ SubSeq(n, Len(n) - 3, Len(n)) \in PdfSpellings

\* the regular files of a directory that carry the extension
MatchingFiles(f, dir) ==
    {n \in Children(f, dir) : IsFile(f, Append(dir, n)) /\ HasPdfExtension(n)}

Readable(f, dir, n) == f.files[Append(dir, n)].hdr = "%PDF"

\* the enumeration of a set of names in increasing code-point order
Increasing(S) ==
    CHOOSE q \in [1..Cardinality(S) -> S] :
        \A i, j \in 1..Cardinality(S) : i < j => StrLess(q[i], q[j])

\* the blocks "Document: <name>\n<text>" of names i.. of q, a blank line
\* between two blocks
RECURSIVE Blocks(_, _, _, _)
Blocks(f, dir, q, i) ==
    IF i > Len(q) THEN <<>>
    ELSE <<"Document: ">> \o q[i] \o <<"\n">>
         \o IngestionReadPdf(f.files[Append(dir, q[i])]).text
         \o (IF i < Len(q) THEN <<"\n", "\n">> ELSE <<>>)
         \o Blocks(f, dir, q, i + 1)

\* C9 (as stated): combine_documents returns, whatever the session directory
\* holds, the blocks of exactly its regular .pdf files in name order, and the
\* empty string when there is none.
C9_CombineAlwaysReturnsBlocks ==
    (res.op = "combine_documents" /\ IsDir(fs, res.caller)) =>
        /\ res.status = "returned"
        /\ res.text = Blocks(fs, res.caller, Increasing(MatchingFiles(fs, res.caller)), 1)

\* C9 (amended): when every regular .pdf file of the session directory is a
\* readable, unencrypted PDF, combine_documents returns the blocks of exactly
\* these files in name order, separated by one blank line (the empty string
\* when there is none); when one of them is not, the call raises.
C9_CombineBlocksOfReadableFiles ==
    (res.op = "combine_documents" /\ IsDir(fs, res.caller)) =>
        IF \A n \in MatchingFiles(fs, res.caller) : Readable(fs, res.caller, n)
        THEN /\ res.status = "returned"
             /\ res.text = Blocks(fs, res.caller, Increasing(MatchingFiles(fs, res.caller)), 1)
        ELSE res.status = "raised"

\* combine_documents has returned two blocks, the upper-case extension first,
\* from a directory that also holds an entry that is no .pdf file
C9_Witness ==
    /\ res.op = "combine_documents" /\ res.status = "returned"
    /\ IsDir(fs, res.caller)
    /\ Cardinality(MatchingFiles(fs, res.caller)) = 2
    /\ \E n \in MatchingFiles(fs, res.caller) : n # Lower(n)
    /\ Children(fs, res.caller) # MatchingFiles(fs, res.caller)

\* the provider load_llm resolves from LLM_PROVIDER is unknown (no entry of
\* the llm block) or unsupported (an entry whose provider is not one of the
\* two supported values)
UnknownOrUnsupported ==
    /\ llm.config.hasLlm
    /\ \/ llm.provider_key \notin DOMAIN llm.config.llm
       \/ /\ llm.config.llm[llm.provider_key].kind = "mapping"
          /\ llm.config.llm[llm.provider_key].provider \notin {"google", "groq"}

\* C11: load_llm for an unknown or unsupported provider raises, with the
\* provider error as its cause, and has built no chat client and made no
\* network call; no failing load_llm builds a client.
C11_UnsupportedProviderNoClient ==
    llm.status # "none" =>
        /\ UnknownOrUnsupported =>
              /\ llm.status = "raised"
              /\ llm.cause \in {"LLM provider not found in configuration",
                                "Unsupported LLM provider"}
              /\ llm.client = "none" /\ llm.clients = 0 /\ llm.networkCalls = 0
        /\ llm.status = "raised" => llm.clients = 0 /\ llm.networkCalls = 0

\* load_llm has failed once for a key outside the configuration while a
\* supported entry exists (LLM_PROVIDER = "unknown-provider")
C11_Witness ==
    /\ llm.status = "raised"
    /\ llm.provider_key = "unknown-provider"
    /\ llm.cause = "LLM provider not found in configuration"
    /\ "google" \in DOMAIN llm.config.llm
    /\ llm.clients = 0

\* C12 (as stated): when the first parse and the repair pass of a comparison
\* both fail, the error raised carries the original raw text and the text
\* of the repair attempt.
C12_ErrorCarriesBothTexts ==
    (/\ call.op = "compare_documents"
     /\ call.status = "raised"
     /\ call.cause = "OutputParserException") =>
        {call.raw, call.repairs[1]} \subseteq {call.llm_output}

\* the files a step has created or given new content
Written(f, g) == {p \in DOMAIN g.files : p \notin DOMAIN f.files \/ g.files[p] # f.files[p]}

\* C13 (as stated): every file a save_pdf or save_uploaded_files call writes
\* lies directly inside the directory of the session that saves.
C13_SavesStayInSessionDir ==
    [][(nSaves' = nSaves + 1) =>
          \A p \in Written(fs, fs') :
              Len(p) = Len(res'.caller) + 1 /\ IsPrefix(res'.caller, p)]_vars

DigitSet == {Digits[i] : i \in 1..Len(Digits)}

\* the number written by the digits of text from position i on
RECURSIVE ReadNumber(_, _, _)
ReadNumber(text, i, acc) ==
    IF i > Len(text) \/ text[i] \notin DigitSet THEN acc
    ELSE ReadNumber(text, i + 1,
                    acc * 10 + (CHOOSE d \in 0..9 : Digits[d + 1] = text[i]))

\* the page numbers of the markers "--- Page <n> ---" of a text, in the
\* order of the text
RECURSIVE MarkersFrom(_, _)
MarkersFrom(text, i) ==
    IF i > Len(text) THEN <<>>
    ELSE (IF text[i] = "--- Page " THEN <<ReadNumber(text, i + 1, 0)>> ELSE <<>>)
         \o MarkersFrom(text, i + 1)

\* the 1-based numbers, in increasing order, of the pages that are not blank
NonBlankPages(pages) ==
    SelectSeq([k \in 1..Len(pages) |-> k], LAMBDA k : Strip(pages[k]) # <<>>)

\* C14 (as stated): the markers of the text either read_pdf returns are the
\* 1-based numbers of exactly the pages whose text is not blank, in
\* increasing order.
C14_MarkersOfNonBlankPages ==
    (ext.op # "none" /\ ext.status = "returned") =>
        MarkersFrom(ext.text, 1) = NonBlankPages(ext.doc.pages)

\* C15 (as stated): a save_uploaded_files call that raises because one of the
\* two names is no PDF name leaves the session directory, its files and
\* their contents as they were before the call.
C15_FailedSaveWritesNothing ==
    [][(/\ nSaves' = nSaves + 1
        /\ res'.op = "save_uploaded_files"
        /\ res'.status = "raised"
        /\ res'.cause = "Only PDF files are allowed.")
       => DirState(fs', res'.caller) = DirState(fs, res'.caller)]_vars

\* the number of "Document: " headers of a combined text
DocumentBlocks(text) == Cardinality({i \in 1..Len(text) : text[i] = "Document: "})

\* C16 (as stated): a save_uploaded_files call that returns in a session whose
\* directory was empty has returned two distinct paths, each holding the
\* bytes of its own upload, and combine_documents then yields exactly two
\* "Document:" blocks.
C16_PairStoredAsTwoDocuments ==
    [][(/\ nSaves' = nSaves + 1
        /\ res'.op = "save_uploaded_files"
        /\ res'.status = "returned"
        /\ Children(fs, res'.caller) = {})
       => /\ res'.paths[1] # res'.paths[2]
          /\ \A i \in 1..2 : fs'.files[res'.paths[i]] = res'.uploads[i].bytes
          /\ CombineDocuments(fs', res'.caller).ok
          /\ DocumentBlocks(CombineDocuments(fs', res'.caller).text) = 2]_vars

====
